---------------------------- MODULE Spec2Model ----------------------------
(***************************************************************************)
(* Gesture-control glove: the ESP32 rule-based detector and broadcaster    *)
(* (src/unnamed/part_003), the text wire frame, the React host that        *)
(* receives and arbitrates it (src/src/GestureVisualizer.jsx) and the      *)
(* TensorFlow.js classifier wrapper (src/unnamed/part_000).                *)
(*                                                                         *)
(* Strings are sequences of one-character strings.  The device clock and   *)
(* lastSend are uint32_t: they are kept as two 16-bit limbs <<hi, lo>> so  *)
(* that the wrap of millis() at 2^32 is the real one.                      *)
(***************************************************************************)
EXTENDS Integers, Sequences, FiniteSets, TLC

VARIABLES
    \* ---- device (part_003) ----
    connected,        \* bool connected
    currentGesture,   \* uint8_t currentGesture
    gestureCount,     \* uint8_t gestureCount
    lastSend,         \* uint32_t lastSend, as <<hi, lo>>
    clock,            \* what millis() returns at the next read, as <<hi, lo>>
    frame,            \* f1, f2, ax .. gz read by the latest loop() iteration
    detected,         \* uint8_t detected of the latest iteration (NoGesture before the first)
    pCharValue,       \* value of the notify characteristic (the last buf notified)
    sent,             \* the latest loop() iteration called pChar->notify()
    nowRead,          \* uint32_t now of the latest iteration
    ticks,            \* number of loop() iterations run
    elapsed,          \* real ms from the latest transmission to the clock, capped; -1 before one
    lastGap,          \* real ms between the two latest transmissions, capped; -1 before two
    txLog,            \* <<tick, id>> of every transmission so far (scenario runs)
    scen,             \* scenario parameters [A, B] of the debounce scenario
    \* ---- host (GestureVisualizer.jsx) ----
    isConnected,      \* useState isConnected
    currentGestureUI, \* useState currentGesture: [id, name, mlPredicted]
    sensorData,       \* useState sensorData
    history,          \* useState history, newest first (timestamps left out)
    useML,            \* useState useML
    mlConfidence,     \* useState mlConfidence
    mlPrediction,     \* useState mlPrediction: <<>> is null, <<p>> a prediction
    connecting,       \* connectBLE calls in flight: the useML each closure captured
    listeners,        \* characteristicvaluechanged listeners: the useML each captured
    pending,          \* parseData calls suspended at `await predict(...)`
    rx,               \* the latest frame received: count, text, outcome, useML read
    done,             \* the latest frame surfaced: count, frame label, setting, prediction
    \* ---- classifier (GestureClassifier) ----
    model,            \* this.model: <<>> is null, <<m>> a model
    isTraining,       \* this.isTraining
    trainingData,     \* this.trainingData: normalized feature vectors
    labels,           \* this.labels
    runs,             \* train() calls suspended in model.fit or in saveModel
    trainRes,         \* train() calls so far and how the latest one went on
    idb,              \* the IndexedDB record 'gesture-model': <<>> or <<m>>
    api,              \* reset() and predict() calls so far, and what the latest predict ran with
    \* ---- trainer panel (GestureTrainer, and showTrainer of GestureVisualizer) ----
    showTrainer,      \* useState showTrainer
    mount,            \* which GestureTrainer instance is (or was last) mounted
    trIsRecording,    \* useState isRecording of the mounted instance
    trIsTraining,     \* useState isTraining of the mounted instance
    trGesture,        \* useState currentGesture of the mounted instance (the label)
    trStats,          \* useState stats: <<>> is null, <<n>> has totalSamples n
    intervalRef,      \* recordingIntervalRef.current: <<>> is null, <<id>> a timer
    timers,           \* the setInterval timers that are active, with what each closed over
    rec               \* Start clicks and ticks so far, and what the latest of each did

devVars == <<connected, currentGesture, gestureCount, lastSend, clock, frame,
             detected, pCharValue, sent, nowRead, ticks, elapsed, lastGap,
             txLog, scen>>

hostVars == <<isConnected, currentGestureUI, sensorData, history, useML,
              mlConfidence, mlPrediction, connecting, listeners, pending, rx, done>>

clsVars == <<model, isTraining, trainingData, labels, runs, trainRes, idb>>

trnVars == <<showTrainer, mount, trIsRecording, trIsTraining, trGesture, trStats,
             intervalRef, timers, rec>>

vars == <<devVars, hostVars, clsVars, trnVars, api>>

-----------------------------------------------------------------------------
(* Bounds of the model *)

MaxTicks == 9          \* loop() iterations explored per run
MaxRx == 2             \* frames the host receives per run
MaxSamples == 11       \* samples added to the store per run
MaxTrainCalls == 2     \* train() calls per run
GapCap == 240          \* elapsed real time is tracked up to this many ms

-----------------------------------------------------------------------------
(* Characters, decimal formatting *)

Min(a, b) == IF a < b THEN a ELSE b

Digits == <<"0", "1", "2", "3", "4", "5", "6", "7", "8", "9">>

RECURSIVE NatToChars(_)
\* printf %d of a non-negative int
NatToChars(n) ==
    IF n < 10 THEN <<Digits[n + 1]>>
    ELSE NatToChars(n \div 10) \o <<Digits[(n % 10) + 1]>>

\* printf %d
IntToChars(n) == IF n < 0 THEN <<"-">> \o NatToChars(-n) ELSE NatToChars(n)

-----------------------------------------------------------------------------
(* uint32_t arithmetic on <<hi, lo>> limbs *)

Limb == 2 ^ 16

U32(hi, lo) == <<hi, lo>>

\* a + d for 0 <= d < 65536, modulo 2^32
Add32(a, d) ==
    LET lo == a[2] + d
    IN  <<(a[1] + (lo \div Limb)) % Limb, lo % Limb>>

\* a - b modulo 2^32
Sub32(a, b) ==
    LET lo == a[2] - b[2]
        borrow == IF lo < 0 THEN 1 ELSE 0
    IN  <<(a[1] - b[1] - borrow + 2 * Limb) % Limb, (lo + Limb) % Limb>>

\* a >= n for 0 <= n < 65536
Ge32(a, n) == a[1] > 0 \/ a[2] >= n


-----------------------------------------------------------------------------
(* Device: thresholds, names, detectGesture *)

FLEX_HIGH == 2600
FLEX_LOW == 1200
GYRO_THR == 8000
ACC_THR == 14000

NoGesture == 255      \* "no classification yet" (not a value of the code)

gestureNames ==
    << <<"I", "D", "L", "E">>,
       <<"F", "I", "S", "T">>,
       <<"O", "P", "E", "N", "_", "H", "A", "N", "D">>,
       <<"W", "A", "V", "E", "_", "L", "E", "F", "T">>,
       <<"W", "A", "V", "E", "_", "R", "I", "G", "H", "T">>,
       <<"T", "I", "L", "T", "_", "U", "P">>,
       <<"T", "I", "L", "T", "_", "D", "O", "W", "N">>,
       <<"T", "I", "L", "T", "_", "R", "I", "G", "H", "T">>,
       <<"T", "I", "L", "T", "_", "L", "E", "F", "T">> >>

Frame(f1, f2, ax, ay, az, gx, gy, gz) ==
    [f1 |-> f1, f2 |-> f2, ax |-> ax, ay |-> ay, az |-> az,
     gx |-> gx, gy |-> gy, gz |-> gz]

ZeroFrame == Frame(0, 0, 0, 0, 0, 0, 0, 0)

\* faulty variant: the two accelerometer axes tested in the other order
detectGesture_AxFirst(f) ==
    IF f.gz < -GYRO_THR THEN 3
    ELSE IF f.gz > GYRO_THR THEN 4
    ELSE IF f.ax > ACC_THR THEN 7
    ELSE IF f.ax < -ACC_THR THEN 8
    ELSE IF f.ay < -ACC_THR THEN 5
    ELSE IF f.ay > ACC_THR THEN 6
    ELSE IF f.f1 > FLEX_HIGH - 200 /\ f.f2 > FLEX_HIGH - 200 THEN 1
    ELSE IF f.f1 < FLEX_LOW + 200 /\ f.f2 < FLEX_LOW + 200 THEN 2
    ELSE 0

detectGesture(f) ==
    IF f.gz < -GYRO_THR THEN 3
    ELSE IF f.gz > GYRO_THR THEN 4
    ELSE IF f.ay < -ACC_THR THEN 5
    ELSE IF f.ay > ACC_THR THEN 6
    ELSE IF f.ax > ACC_THR THEN 7
    ELSE IF f.ax < -ACC_THR THEN 8
    ELSE IF f.f1 > FLEX_HIGH - 200 /\ f.f2 > FLEX_HIGH - 200 THEN 1
    ELSE IF f.f1 < FLEX_LOW + 200 /\ f.f2 < FLEX_LOW + 200 THEN 2
    ELSE 0

-----------------------------------------------------------------------------
(* Host: JavaScript values and string operations *)

\* a JavaScript number, NaN, or undefined where a number is expected
Num(n) == [t |-> "num", v |-> n]
NaN == [t |-> "nan", v |-> 0]
Undefined == [t |-> "undef", v |-> 0]

IsDigit(c) == \E i \in 1..10 : Digits[i] = c

DigitVal(c) == (CHOOSE i \in 1..10 : Digits[i] = c) - 1

RECURSIVE DigitsVal(_)
\* the value of a non-empty run of decimal digits
DigitsVal(s) ==
    IF Len(s) = 1 THEN DigitVal(s[1])
    ELSE 10 * DigitsVal(SubSeq(s, 1, Len(s) - 1)) + DigitVal(s[Len(s)])

IsSign(c) == c = "-" \/ c = "+"

\* Number(str) on the texts of the model, which hold no white space, no ".",
\* no exponent and no radix prefix: "" is 0, [+-]digits is its value, the rest NaN
Number(s) ==
    IF s = <<>> THEN Num(0)
    ELSE LET body == IF IsSign(s[1]) THEN Tail(s) ELSE s
         IN  IF body # <<>> /\ \A i \in 1..Len(body) : IsDigit(body[i])
             THEN Num(IF s[1] = "-" THEN -DigitsVal(body) ELSE DigitsVal(body))
             ELSE NaN

\* length of the longest prefix of s made of digits
DigitPrefix(s) ==
    IF \A i \in 1..Len(s) : IsDigit(s[i]) THEN Len(s)
    ELSE (CHOOSE i \in 1..Len(s) : ~IsDigit(s[i]) /\ \A j \in 1..(i - 1) : IsDigit(s[j])) - 1

\* parseInt(str) on the same texts: the value of the longest [+-]digits prefix,
\* NaN when there is none
parseInt(s) ==
    LET body == IF s # <<>> /\ IsSign(s[1]) THEN Tail(s) ELSE s
        n == DigitPrefix(body)
    IN  IF n = 0 THEN NaN
        ELSE Num(IF s[1] = "-" THEN -DigitsVal(SubSeq(body, 1, n))
                 ELSE DigitsVal(SubSeq(body, 1, n)))

RECURSIVE Split(_, _)
\* str.split(sep) for a one-character separator
Split(s, sep) ==
    IF \A i \in 1..Len(s) : s[i] # sep THEN <<s>>
    ELSE LET k == CHOOSE i \in 1..Len(s) : s[i] = sep /\ \A j \in 1..(i - 1) : s[j] # sep
         IN  <<SubSeq(s, 1, k - 1)>> \o Split(SubSeq(s, k + 1, Len(s)), sep)

\* array destructuring of strings: element i as <<str>>, <<>> when undefined
StrAt(arr, i) == IF i <= Len(arr) THEN <<arr[i]>> ELSE <<>>

\* array destructuring of numbers: element i, or undefined
NumAt(arr, i) == IF i <= Len(arr) THEN arr[i] ELSE Undefined

-----------------------------------------------------------------------------
(* Host: parseData *)

Gesture(id, name, ml) == [id |-> id, name |-> name, mlPredicted |-> ml]

IdleGesture == Gesture(Num(0), <<gestureNames[1]>>, FALSE)

\* line 110: { flex1: f1, flex2: f2, ax, ay, az, gx, gy, gz } from the destructured array
SensorObj(nums) ==
    [flex1 |-> NumAt(nums, 1), flex2 |-> NumAt(nums, 2),
     ax |-> NumAt(nums, 3), ay |-> NumAt(nums, 4),
     az |-> NumAt(nums, 5), gx |-> NumAt(nums, 6),
     gy |-> NumAt(nums, 7), gz |-> NumAt(nums, 8)]

\* faulty variant: a frame without "|" is decoded with an empty sensor segment
ParseWire_LenientBar(data) ==
    LET parts == Split(data, "|")
        gp == Split(parts[1], ":")
        sensorPart == IF Len(parts) >= 2 THEN parts[2] ELSE <<>>
        raw == Split(sensorPart, ",")
        nums == [i \in 1..Len(raw) |-> Number(raw[i])]
    IN  [threw |-> FALSE,
         id |-> parseInt(gp[1]),
         name |-> StrAt(gp, 2),
         sd |-> SensorObj(nums)]

\* lines 106-113: the decoded frame, or threw when sensorPart is undefined and
\* sensorPart.split raises the TypeError that line 148 catches
ParseWire(data) ==
    LET parts == Split(data, "|")
        gp == Split(parts[1], ":")
        sensorPart == StrAt(parts, 2)
        raw == IF sensorPart = <<>> THEN <<>> ELSE Split(sensorPart[1], ",")
        nums == [i \in 1..Len(raw) |-> Number(raw[i])]
    IN  IF sensorPart = <<>>
        THEN [threw |-> TRUE, id |-> NaN, name |-> <<>>,
              sd |-> SensorObj(<<>>)]
        ELSE [threw |-> FALSE,
              id |-> parseInt(gp[1]),
              name |-> StrAt(gp, 2),
              sd |-> SensorObj(nums)]

-----------------------------------------------------------------------------
(* Classifier: predict *)

\* probabilities are in percent
ConfidenceThreshold == 50
HistoryMax == 10

\* a model as initialize() builds and compiles it (lines 28-55)
FreshModel == [w |-> "fresh"]
\* a model as tf.loadLayersModel returns it (line 200): the stored weights,
\* not compiled (saveModel stores no optimizer, loadModel does not compile)
SavedModel == [w |-> "saved"]

\* loadModel(), lines 198-207, on the IndexedDB record db: <<>> when it throws
loadModel(db) == IF db = <<>> THEN <<>> ELSE <<SavedModel>>

\* this.model once initialize() has completed (lines 20-58)
initialize(db) == IF loadModel(db) # <<>> THEN loadModel(db) ELSE <<FreshModel>>

\* Math.max(...probabilities): NaN as soon as one entry is NaN
MathMax(p) ==
    IF \E i \in 1..Len(p) : p[i].t # "num" THEN NaN
    ELSE Num(CHOOSE m \in {p[i].v : i \in 1..Len(p)} :
                 \A i \in 1..Len(p) : p[i].v <= m)

\* strict equality of two numbers: NaN equals nothing
StrictEq(a, b) == a.t = "num" /\ b.t = "num" /\ a.v = b.v

\* faulty variant: the last index holding x
IndexOf_Last(p, x) ==
    IF \E i \in 1..Len(p) : StrictEq(p[i], x)
    THEN (CHOOSE i \in 1..Len(p) :
              StrictEq(p[i], x) /\ \A j \in (i + 1)..Len(p) : ~StrictEq(p[j], x)) - 1
    ELSE -1

\* probabilities.indexOf(x): the first index (from 0) holding x, else -1
IndexOf(p, x) ==
    IF \E i \in 1..Len(p) : StrictEq(p[i], x)
    THEN (CHOOSE i \in 1..Len(p) :
              StrictEq(p[i], x) /\ \A j \in 1..(i - 1) : ~StrictEq(p[j], x)) - 1
    ELSE -1

\* lines 170-180 of predict, from the probabilities the model put out
Prediction(probs) ==
    [gestureId |-> IndexOf(probs, MathMax(probs)),
     confidence |-> MathMax(probs),
     probabilities |-> probs]

Dist(a, b, c, d, e, f, g, h, i) ==
    <<Num(a), Num(b), Num(c), Num(d), Num(e), Num(f), Num(g), Num(h), Num(i)>>

\* what the network puts out on numeric features: just above the threshold, a
\* tie exactly at it, a clear winner
ModelOutputs ==
    { Dist(0, 0, 51, 49, 0, 0, 0, 0, 0),
      Dist(0, 0, 0, 0, 50, 50, 0, 0, 0),
      Dist(0, 0, 0, 0, 0, 0, 0, 1, 99) }

\* and on features holding NaN (a field that was NaN or undefined)
NaNOutput == [i \in 1..9 |-> NaN]

AllNumeric(sd) ==
    /\ sd.flex1.t = "num" /\ sd.flex2.t = "num"
    /\ sd.ax.t = "num" /\ sd.ay.t = "num" /\ sd.az.t = "num"
    /\ sd.gx.t = "num" /\ sd.gy.t = "num" /\ sd.gz.t = "num"

OutputsFor(sd) == IF AllNumeric(sd) THEN ModelOutputs ELSE {NaNOutput}

-----------------------------------------------------------------------------
(* Host: arbitration and the handlers *)

\* x > y for a JavaScript number x: false for NaN
Gt(x, y) == x.t = "num" /\ x.v > y

\* gestureNames[id] || 'UNKNOWN'
NameOrUnknown(id) ==
    IF id \in 0..8 THEN <<gestureNames[id + 1]>> ELSE << <<"U", "N", "K", "N", "O", "W", "N">> >>

\* faulty variant: the threshold is not strict
Arbitrate_AtLeast(g, pred) ==
    IF pred.confidence.t = "num" /\ pred.confidence.v >= ConfidenceThreshold
    THEN [gesture |-> Gesture(Num(pred.gestureId), NameOrUnknown(pred.gestureId), TRUE),
          conf |-> pred.confidence, pred |-> <<pred>>]
    ELSE [gesture |-> g, conf |-> Num(0), pred |-> <<>>]

\* lines 119-131: what is surfaced for frame gesture g once predict returned pred
Arbitrate(g, pred) ==
    IF Gt(pred.confidence, ConfidenceThreshold)
    THEN [gesture |-> Gesture(Num(pred.gestureId), NameOrUnknown(pred.gestureId), TRUE),
          conf |-> pred.confidence, pred |-> <<pred>>]
    ELSE [gesture |-> g, conf |-> Num(0), pred |-> <<>>]

\* faulty variant: the last n entries are kept
Take_Tail(q, n) == SubSeq(q, Len(q) - Min(Len(q), n) + 1, Len(q))

\* q.slice(0, n)
Take(q, n) == SubSeq(q, 1, Min(Len(q), n))

\* lines 142-147: setCurrentGesture and setHistory
Surface(g) ==
    /\ currentGestureUI' = g
    /\ history' = Take(<<g>> \o history, HistoryMax)

NoRx == [count |-> 0, text |-> <<>>, outcome |-> "none", useMLRead |-> FALSE]

NoDone == [count |-> 0, frame |-> IdleGesture, useMLRead |-> FALSE, pred |-> <<>>]

ZeroSensors == SensorObj([i \in 1..8 |-> Num(0)])

InitHostState ==
    /\ isConnected = FALSE
    /\ currentGestureUI = IdleGesture
    /\ sensorData = ZeroSensors
    /\ history = <<>>
    /\ useML = FALSE
    /\ mlConfidence = Num(0)
    /\ mlPrediction = <<>>
    /\ connecting = <<>>
    /\ listeners = <<>>
    /\ pending = <<>>
    /\ rx = NoRx
    /\ done = NoDone

NoTrain == [calls |-> 0, outcome |-> "none", rejected |-> 0, completed |-> 0]

\* the classifier as constructed on mount (lines 8-15 of the class)
InitClassifierState ==
    /\ model = <<>>
    /\ isTraining = FALSE
    /\ trainingData = <<>>
    /\ labels = <<>>
    /\ runs = <<>>
    /\ trainRes = NoTrain

\* the ML switch (line 184)
ToggleML ==
    /\ useML' = ~useML
    /\ UNCHANGED <<isConnected, currentGestureUI, sensorData, history, mlConfidence,
                   mlPrediction, connecting, listeners, pending, rx, done,
                   clsVars, devVars, trnVars, api>>

\* the Connect button: connectBLE starts; its handleDataReceived and parseData
\* are those of the render that was clicked, with that render's useML
ConnectClick ==
    /\ ~isConnected
    /\ connecting = <<>>
    /\ connecting' = <<useML>>
    /\ UNCHANGED <<isConnected, currentGestureUI, sensorData, history, useML,
                   mlConfidence, mlPrediction, listeners, pending, rx, done,
                   clsVars, devVars, trnVars, api>>

\* connectBLE, lines 82-91: the listener is registered, setIsConnected(true)
ConnectDone ==
    /\ connecting # <<>>
    /\ listeners' = <<connecting[1]>>
    /\ isConnected' = TRUE
    /\ connecting' = <<>>
    /\ UNCHANGED <<currentGestureUI, sensorData, history, useML, mlConfidence,
                   mlPrediction, pending, rx, done, clsVars, devVars, trnVars, api>>

\* connectBLE, lines 92-95: a step of the connection failed
ConnectFail ==
    /\ connecting # <<>>
    /\ connecting' = <<>>
    /\ UNCHANGED <<isConnected, currentGestureUI, sensorData, history, useML,
                   mlConfidence, mlPrediction, listeners, pending, rx, done,
                   clsVars, devVars, trnVars, api>>

\* handleDisconnect, on the gattserverdisconnected event (link drop, or the
\* Disconnect button's gatt.disconnect()); the characteristic is gone
HandleDisconnect ==
    /\ listeners # <<>>
    /\ isConnected' = FALSE
    /\ currentGestureUI' = IdleGesture
    /\ listeners' = <<>>
    /\ UNCHANGED <<sensorData, history, useML, mlConfidence, mlPrediction,
                   connecting, pending, rx, done, clsVars, devVars, trnVars, api>>

\* handleDataReceived -> parseData(data) up to its first await or its end,
\* in the closure of the listener (useML as captured)
Receive(data) ==
    LET p == ParseWire(data)
        ml == listeners[1]
        g == Gesture(p.id, p.name, FALSE)
    IN  IF p.threw
        THEN /\ rx' = [count |-> rx.count + 1, text |-> data,
                       outcome |-> "ParseError", useMLRead |-> ml]
             /\ UNCHANGED <<sensorData, currentGestureUI, history, mlConfidence,
                            mlPrediction, pending, done>>
        ELSE /\ sensorData' = p.sd
             /\ IF ml /\ model # <<>>
                THEN /\ pending' = Append(pending, [g |-> g, sd |-> p.sd])
                     /\ rx' = [count |-> rx.count + 1, text |-> data,
                               outcome |-> "awaiting", useMLRead |-> ml]
                     /\ UNCHANGED <<currentGestureUI, history, mlConfidence,
                                    mlPrediction, done>>
                ELSE /\ mlConfidence' = Num(0)
                     /\ mlPrediction' = <<>>
                     /\ Surface(g)
                     /\ rx' = [count |-> rx.count + 1, text |-> data,
                               outcome |-> "surfaced", useMLRead |-> ml]
                     /\ done' = [count |-> done.count + 1, frame |-> g,
                                 useMLRead |-> ml, pred |-> <<>>]
                     /\ UNCHANGED pending

Remove(q, i) == SubSeq(q, 1, i - 1) \o SubSeq(q, i + 1, Len(q))

\* predict resolved for the i-th suspended parseData: lines 119-147
PredictResolve ==
    \E i \in 1..Len(pending) : \E probs \in OutputsFor(pending[i].sd) :
        LET pred == Prediction(probs)
            a == Arbitrate(pending[i].g, pred)
        IN  /\ mlConfidence' = a.conf
            /\ mlPrediction' = a.pred
            /\ Surface(a.gesture)
            /\ pending' = Remove(pending, i)
            /\ done' = [count |-> done.count + 1, frame |-> pending[i].g,
                        useMLRead |-> TRUE, pred |-> <<pred>>]
            /\ UNCHANGED <<isConnected, sensorData, useML, connecting, listeners,
                           rx, clsVars, devVars, trnVars, api>>

\* predict rejected for the i-th suspended parseData: lines 132-136, 142-147
PredictReject ==
    \E i \in 1..Len(pending) :
        /\ mlConfidence' = Num(0)
        /\ mlPrediction' = <<>>
        /\ Surface(pending[i].g)
        /\ pending' = Remove(pending, i)
        /\ done' = [count |-> done.count + 1, frame |-> pending[i].g,
                    useMLRead |-> TRUE, pred |-> <<>>]
        /\ UNCHANGED <<isConnected, sensorData, useML, connecting, listeners,
                       rx, clsVars, devVars, trnVars, api>>

\* initialize() as started on mount completes: the saved model, else a new one
ClassifierInitialize ==
    /\ model = <<>>
    /\ model' = initialize(idb)
    /\ UNCHANGED <<isTraining, trainingData, labels, runs, trainRes, idb,
                   hostVars, devVars, trnVars, api>>

-----------------------------------------------------------------------------
(* Classifier: the sample store and train *)

MinSamples == 10
Epochs == 50
FlexMax == 4095
MotionMax == 32768

Frac(n, d) == [n |-> n, d |-> d]

\* faulty variant: the flex values divided by 4096
normalizeFeatures_4096(features) ==
    << Frac(features[1], FlexMax + 1), Frac(features[2], FlexMax + 1),
       Frac(features[3], MotionMax), Frac(features[4], MotionMax),
       Frac(features[5], MotionMax), Frac(features[6], MotionMax),
       Frac(features[7], MotionMax), Frac(features[8], MotionMax) >>

\* normalizeFeatures (lines 85-98): each quotient kept as numerator and divisor
normalizeFeatures(features) ==
    << Frac(features[1], FlexMax), Frac(features[2], FlexMax),
       Frac(features[3], MotionMax), Frac(features[4], MotionMax),
       Frac(features[5], MotionMax), Frac(features[6], MotionMax),
       Frac(features[7], MotionMax), Frac(features[8], MotionMax) >>

\* the features array of addSample and predict, from a sensorData object
Features(sd) ==
    <<sd.flex1.v, sd.flex2.v, sd.ax.v, sd.ay.v, sd.az.v, sd.gx.v, sd.gy.v, sd.gz.v>>

\* faulty variant: the label is not stored
addSample_FeaturesOnly(sd, gestureId) ==
    /\ trainingData' = Append(trainingData, normalizeFeatures(Features(sd)))
    /\ labels' = labels

\* addSample(sensorData, gestureId), lines 63-80
addSample(sd, gestureId) ==
    /\ trainingData' = Append(trainingData, normalizeFeatures(Features(sd)))
    /\ labels' = Append(labels, gestureId)

\* the sensorData and label a caller records
SampleInputs == { <<SensorObj([i \in 1..8 |-> Num(<<3000, 3000, 0, 0, 0, 0, 0, 0>>[i])]), 1>> }

AddSample ==
    /\ Len(trainingData) < MaxSamples
    /\ \E in \in SampleInputs : addSample(in[1], in[2])
    /\ UNCHANGED <<model, isTraining, runs, trainRes, idb, hostVars, devVars, trnVars, api>>

\* clearTrainingData(), lines 212-215
ClearTrainingData ==
    /\ trainingData # <<>>
    /\ trainingData' = <<>>
    /\ labels' = <<>>
    /\ UNCHANGED <<model, isTraining, runs, trainRes, idb, hostVars, devVars, trnVars, api>>

\* faulty variant: the gate lets 9 samples through
TrainGate_OffByOne(n) == n < MinSamples - 1

\* line 104: train() throws 'Need at least 10 samples to train'
TrainGate(n) == n < MinSamples

\* train(onProgress) up to its first await (lines 104-115).  Past the gate,
\* this.model.fit is called: on a null model that is a TypeError, and
\* TensorFlow.js refuses to fit a model that was not compiled, and a fit while
\* another one is running on the same model.
\* `by` is the caller: 0, or the GestureTrainer instance whose trainModel it is.
train(by) ==
    /\ trainRes.calls < MaxTrainCalls
    /\ IF TrainGate(Len(trainingData))
       THEN /\ trainRes' = [trainRes EXCEPT !.calls = @ + 1,
                                            !.rejected = @ + 1,
                                            !.outcome = "InsufficientData"]
            /\ UNCHANGED <<isTraining, runs>>
       ELSE /\ isTraining' = TRUE
            /\ IF model = <<>>
               THEN /\ trainRes' = [trainRes EXCEPT !.calls = @ + 1,
                                                    !.outcome = "TypeError"]
                    /\ UNCHANGED runs
               ELSE IF model[1] = SavedModel
               THEN /\ trainRes' = [trainRes EXCEPT !.calls = @ + 1,
                                                    !.outcome = "NotCompiled"]
                    /\ UNCHANGED runs
               ELSE IF \E i \in 1..Len(runs) : runs[i].phase = "fit"
               THEN /\ trainRes' = [trainRes EXCEPT !.calls = @ + 1,
                                                    !.outcome = "FitOngoing"]
                    /\ UNCHANGED runs
               ELSE /\ trainRes' = [trainRes EXCEPT !.calls = @ + 1,
                                                    !.outcome = "fitting"]
                    /\ runs' = Append(runs, [phase |-> "fit", epoch |-> 0, by |-> by])
    /\ UNCHANGED <<model, trainingData, labels, idb, hostVars, devVars>>

\* train() called on the classifier by some caller
TrainCall == train(0) /\ UNCHANGED <<trnVars, api>>

\* faulty variant: an epoch ends without its onEpochEnd
TrainEpoch_Skip ==
    \E i \in 1..Len(runs) :
        /\ runs[i].phase = "fit"
        /\ runs[i].epoch + 1 < Epochs
        /\ runs' = [runs EXCEPT ![i].epoch = @ + 2]
        /\ model' = IF model = <<>> THEN model ELSE <<[w |-> "partial"]>>
        /\ UNCHANGED <<isTraining, trainingData, labels, trainRes, idb,
                       hostVars, devVars, trnVars, api>>

\* one epoch of model.fit ends (lines 115-133): the weights of the model
\* object are updated in place
TrainEpoch ==
    \E i \in 1..Len(runs) :
        /\ runs[i].phase = "fit"
        /\ runs[i].epoch < Epochs
        /\ runs' = [runs EXCEPT ![i].epoch = @ + 1]
        /\ model' = IF model = <<>> THEN model ELSE <<[w |-> "partial"]>>
        /\ UNCHANGED <<isTraining, trainingData, labels, trainRes, idb,
                       hostVars, devVars, trnVars, api>>

\* model.fit resolves after the last epoch; saveModel starts (lines 135-140)
TrainFitDone ==
    \E i \in 1..Len(runs) :
        /\ runs[i].phase = "fit"
        /\ runs[i].epoch = Epochs
        /\ runs' = [runs EXCEPT ![i].phase = "save"]
        /\ model' = IF model = <<>> THEN model ELSE <<[w |-> "trained"]>>
        /\ UNCHANGED <<isTraining, trainingData, labels, trainRes, idb,
                       hostVars, devVars, trnVars, api>>

\* saveModel settles, written or not (lines 186-193); train() returns (142-143)
\* faulty variant: a failed write is rethrown
TrainReturn_Fatal(i, written) ==
    /\ runs[i].phase = "save"
    /\ idb' = IF written /\ model # <<>> THEN model ELSE idb
    /\ isTraining' = (IF written THEN FALSE ELSE isTraining)
    /\ runs' = Remove(runs, i)
    /\ trainRes' = IF written THEN [trainRes EXCEPT !.completed = @ + 1] ELSE trainRes
    /\ UNCHANGED <<model, trainingData, labels, hostVars, devVars>>

TrainReturn(i, written) ==
    /\ runs[i].phase = "save"
    /\ idb' = IF written /\ model # <<>> THEN model ELSE idb
    /\ isTraining' = FALSE
    /\ runs' = Remove(runs, i)
    /\ trainRes' = [trainRes EXCEPT !.completed = @ + 1]
    /\ UNCHANGED <<model, trainingData, labels, hostVars, devVars>>

TrainSaveDone ==
    \E i \in 1..Len(runs) : \E written \in BOOLEAN :
        TrainReturn(i, written) /\ UNCHANGED <<trnVars, api>>

-----------------------------------------------------------------------------
(* Classifier: reset and predict, as calls of any caller *)

MaxResets == 1         \* reset() calls per run
MaxPredicts == 2       \* predict() calls per run

NoApi == [resets |-> 0, predicts |-> 0, predW |-> "none", feat |-> <<>>, out |-> <<>>]

\* reset(), lines 234-244, called while no training run is in flight.  The
\* model is saved under the key 'gesture-model' of TensorFlow.js's IndexedDB
\* database (line 188); line 240 deletes a database named 'gesture-model',
\* which is another one: the saved record stays.
Reset ==
    /\ api.resets < MaxResets
    /\ runs = <<>>
    /\ model' = <<>>
    /\ trainingData' = <<>>
    /\ labels' = <<>>
    /\ api' = [api EXCEPT !.resets = @ + 1]
    /\ UNCHANGED <<isTraining, runs, trainRes, idb, hostVars, devVars, trnVars>>

\* predict(sensorData), lines 149-181: without a model, initialize() first
\* (the saved model, else a new one); then model.predict on the parameters
\* the model object holds at that moment
predict(sd, probs) ==
    /\ api.predicts < MaxPredicts
    /\ LET m == IF model # <<>> THEN model ELSE initialize(idb)
       IN  /\ model' = m
           /\ api' = [api EXCEPT !.predicts = @ + 1, !.predW = m[1].w,
                                 !.feat = normalizeFeatures(Features(sd)),
                                 !.out = <<Prediction(probs)>>]
    /\ UNCHANGED <<isTraining, trainingData, labels, runs, trainRes, idb,
                   hostVars, devVars, trnVars>>

\* predict() called by some caller
Predict ==
    \E in \in SampleInputs : \E probs \in OutputsFor(in[1]) : predict(in[1], probs)

-----------------------------------------------------------------------------
(* The trainer panel: GestureTrainer, mounted while showTrainer *)

MaxMounts == 2         \* times the panel is shown per run
MaxTimers == 2         \* recording timers started per run
MaxRecTicks == 3       \* recording ticks per run

NoRec == [starts |-> 0, outcome |-> "none", ticks |-> 0,
          sd |-> ZeroSensors, live |-> ZeroSensors, label |-> 0]

InitTrainerState ==
    /\ showTrainer = FALSE
    /\ mount = 0
    /\ trIsRecording = FALSE
    /\ trIsTraining = FALSE
    /\ trGesture = 0
    /\ trStats = <<>>
    /\ intervalRef = <<>>
    /\ timers = <<>>
    /\ rec = NoRec
    /\ api = NoApi

\* getTrainingStats().totalSamples, lines 220-229
TotalSamples == Len(trainingData)

\* getTrainingStats().samplesPerClass[l] (0 when absent), lines 220-229
SamplesPerClass(l) == Cardinality({i \in 1..Len(labels) : labels[i] = l})

\* the clear button (line 211: enabled with stats of at least one sample, not
\* training, not recording): clearData, lines 86-92
ClearDataClick ==
    /\ showTrainer /\ ~trIsTraining /\ ~trIsRecording
    /\ trStats # <<>> /\ trStats[1] # 0
    /\ trainingData' = <<>>
    /\ labels' = <<>>
    /\ trStats' = <<0>>
    /\ UNCHANGED <<showTrainer, mount, trIsRecording, trIsTraining, trGesture,
                   intervalRef, timers, rec, api, model, isTraining, runs, trainRes,
                   idb, hostVars, devVars>>

\* the Show/Hide Trainer button (line 200).  Showing mounts a new
\* GestureTrainer: fresh state, then the effect of lines 18-22 reads the
\* stats.  Hiding unmounts it: its state is gone; the component has no
\* cleanup, so a timer it started keeps running.
ToggleTrainer ==
    /\ showTrainer' = ~showTrainer
    /\ IF ~showTrainer
       THEN /\ mount < MaxMounts
            /\ mount' = mount + 1
            /\ trStats' = <<TotalSamples>>
       ELSE /\ mount' = mount
            /\ trStats' = <<>>
    /\ trIsRecording' = FALSE
    /\ trIsTraining' = FALSE
    /\ trGesture' = 0
    /\ intervalRef' = <<>>
    /\ UNCHANGED <<timers, rec, api, hostVars, clsVars, devVars>>

\* the gesture select (lines 120-123), disabled while recording or training
SelectGesture ==
    /\ showTrainer /\ ~trIsRecording /\ ~trIsTraining
    /\ \E l \in {0, 1} : l # trGesture /\ trGesture' = l
    /\ UNCHANGED <<showTrainer, mount, trIsRecording, trIsTraining, trStats,
                   intervalRef, timers, rec, api, hostVars, clsVars, devVars>>

\* faulty variant: only missing fields are refused
AllZero_Missing(sd) ==
    /\ sd.flex1.t = "undef" /\ sd.flex2.t = "undef"
    /\ sd.ax.t = "undef" /\ sd.ay.t = "undef" /\ sd.az.t = "undef"
    /\ sd.gx.t = "undef" /\ sd.gy.t = "undef" /\ sd.gz.t = "undef"

\* Object.values(sensorData).every(v => v === 0), line 31
AllZero(sd) ==
    /\ StrictEq(sd.flex1, Num(0)) /\ StrictEq(sd.flex2, Num(0))
    /\ StrictEq(sd.ax, Num(0)) /\ StrictEq(sd.ay, Num(0)) /\ StrictEq(sd.az, Num(0))
    /\ StrictEq(sd.gx, Num(0)) /\ StrictEq(sd.gy, Num(0)) /\ StrictEq(sd.gz, Num(0))

\* the Start Recording button (shown while not recording, disabled while
\* training): startRecording, lines 30-50.  The timer's callback closes over
\* the sensorData and currentGesture of the render that was clicked.
StartRecordingClick ==
    /\ showTrainer /\ ~trIsRecording /\ ~trIsTraining
    /\ rec.starts < MaxTimers
    /\ IF AllZero(sensorData)
       THEN /\ rec' = [rec EXCEPT !.starts = @ + 1, !.outcome = "rejected"]
            /\ UNCHANGED <<trIsRecording, intervalRef, timers>>
       ELSE /\ rec' = [rec EXCEPT !.starts = @ + 1, !.outcome = "started"]
            /\ trIsRecording' = TRUE
            /\ intervalRef' = <<rec.starts + 1>>
            /\ timers' = Append(timers, [id |-> rec.starts + 1, sd |-> sensorData,
                                         label |-> trGesture, by |-> mount])
    /\ UNCHANGED <<showTrainer, mount, trIsTraining, trGesture, trStats, api,
                   hostVars, clsVars, devVars>>

\* clearInterval(id)
ClearInterval(ts, id) == SelectSeq(ts, LAMBDA t : t.id # id)

\* the Stop Recording button (shown while recording): stopRecording, lines 52-58
StopRecordingClick ==
    /\ showTrainer /\ trIsRecording
    /\ trIsRecording' = FALSE
    /\ IF intervalRef # <<>>
       THEN /\ timers' = ClearInterval(timers, intervalRef[1])
            /\ intervalRef' = <<>>
       ELSE UNCHANGED <<timers, intervalRef>>
    /\ UNCHANGED <<showTrainer, mount, trIsTraining, trGesture, trStats, rec, api,
                   hostVars, clsVars, devVars>>

\* a 100 ms tick of timer i (lines 40-49): addSample with what the callback
\* closed over; setSamples and setStats reach the instance that started the
\* timer, if it is still mounted
RecordTick ==
    /\ rec.ticks < MaxRecTicks
    /\ \E i \in 1..Len(timers) :
          /\ addSample(timers[i].sd, timers[i].label)
          /\ trStats' = IF showTrainer /\ timers[i].by = mount
                        THEN <<TotalSamples + 1>> ELSE trStats
          /\ rec' = [rec EXCEPT !.ticks = @ + 1, !.sd = timers[i].sd,
                                !.live = sensorData, !.label = timers[i].label]
    /\ UNCHANGED <<showTrainer, mount, trIsRecording, trIsTraining, trGesture,
                   intervalRef, timers, api, model, isTraining, runs, trainRes, idb,
                   hostVars, devVars>>

\* the Train Model button (line 203: enabled with stats of at least 10
\* samples, not training, not recording): trainModel, lines 60-84.  When
\* train() throws, the finally of lines 80-83 runs at once.
TrainClick ==
    /\ showTrainer /\ ~trIsTraining /\ ~trIsRecording
    /\ trStats # <<>> /\ trStats[1] >= MinSamples
    /\ train(mount)
    /\ trIsTraining' = (trainRes'.outcome = "fitting")
    /\ UNCHANGED <<showTrainer, mount, trIsRecording, trGesture, trStats,
                   intervalRef, timers, rec, api>>

\* train() returns to trainModel (lines 74-83): setIsTraining(false) reaches
\* the instance that called, if it is still mounted
TrainSettle ==
    \E i \in 1..Len(runs) : \E written \in BOOLEAN :
        /\ TrainReturn(i, written)
        /\ trIsTraining' = IF showTrainer /\ runs[i].by = mount
                           THEN FALSE ELSE trIsTraining
        /\ UNCHANGED <<showTrainer, mount, trIsRecording, trGesture, trStats,
                       intervalRef, timers, rec, api>>

-----------------------------------------------------------------------------
(* Device: one iteration of loop() *)

\* faulty variant: the ceiling is 2
DebounceCount_CeilTwo(det, cg, gc) ==
    IF det = cg THEN (IF gc < 2 THEN gc + 1 ELSE gc) ELSE 0

\* faulty variant: no ceiling
DebounceCount_NoCeiling(det, cg, gc) == IF det = cg THEN gc + 1 ELSE 0

\* gestureCount after the debounce update (lines 113-118)
DebounceCount(det, cg, gc) ==
    IF det = cg THEN (IF gc < 3 THEN gc + 1 ELSE gc) ELSE 0

\* faulty variant: the send interval is not tested
CanSend_NoInterval(conn, gc, now, last) == conn /\ gc = 3

\* faulty variant: the interval tested as now >= lastSend + 120, the sum wrapping
CanSend_AddCompare(conn, gc, now, last) ==
    LET due == Add32(last, 120)
    IN  conn /\ gc = 3 /\ (now[1] > due[1] \/ (now[1] = due[1] /\ now[2] >= due[2]))

\* faulty variant: the link is not tested
CanSend_NoLink(conn, gc, now, last) == gc = 3 /\ Ge32(Sub32(now, last), 120)

\* the condition of line 122, in uint32_t arithmetic
CanSend(conn, gc, now, last) == conn /\ gc = 3 /\ Ge32(Sub32(now, last), 120)

BufSize == 128

\* what the format "%d:%s|%d,%d,%d,%d,%d,%d,%d,%d" expands to (lines 125-127)
Formatted(id, f) ==
    IntToChars(id) \o <<":">> \o gestureNames[id + 1] \o <<"|">>
    \o IntToChars(f.f1) \o <<",">> \o IntToChars(f.f2) \o <<",">>
    \o IntToChars(f.ax) \o <<",">> \o IntToChars(f.ay) \o <<",">>
    \o IntToChars(f.az) \o <<",">> \o IntToChars(f.gx) \o <<",">>
    \o IntToChars(f.gy) \o <<",">> \o IntToChars(f.gz)

\* faulty variant: a 32-byte buffer
EncodeFrame_SmallBuf(id, f) ==
    SubSeq(Formatted(id, f), 1, Min(Len(Formatted(id, f)), 31))

\* faulty variant: the name of the gesture before it in the table
EncodeFrame_PrevName(id, f) ==
    IntToChars(id) \o <<":">> \o gestureNames[IF id = 0 THEN 9 ELSE id] \o <<"|">>
    \o SubSeq(Formatted(id, f), Len(IntToChars(id)) + Len(gestureNames[id + 1]) + 3,
              Len(Formatted(id, f)))

\* snprintf(buf, sizeof(buf), ...): at most sizeof(buf) - 1 characters are kept
EncodeFrame(id, f) ==
    SubSeq(Formatted(id, f), 1, Min(Len(Formatted(id, f)), BufSize - 1))

\* loop() reading frame f, the iteration taking d ms until the next one reads
\* millis(); everything but the scenario log
LoopCore(f, d) ==
    LET now == clock
        det == detectGesture(f)
        gc  == DebounceCount(det, currentGesture, gestureCount)
        tx  == CanSend(connected, gc, now, lastSend)
    IN  /\ frame' = f
        /\ detected' = det
        /\ currentGesture' = det
        /\ gestureCount' = gc
        /\ nowRead' = now
        /\ sent' = tx
        /\ pCharValue' = IF tx THEN EncodeFrame(det, f) ELSE pCharValue
        /\ lastSend' = IF tx THEN now ELSE lastSend
        /\ clock' = Add32(now, d)
        /\ ticks' = ticks + 1
        /\ elapsed' = IF tx THEN d
                      ELSE IF elapsed = -1 THEN -1
                      ELSE Min(elapsed + d, GapCap)
        /\ lastGap' = IF tx THEN elapsed ELSE lastGap
        /\ UNCHANGED connected

\* frames the device model reads: one per rule family, two of them matching
\* several rules at once
DevFrames ==
    { Frame(2000, 2000, 0, 0, 0, 0, 0, 0),          \* IDLE
      Frame(3000, 3000, 0, 0, 0, 0, 0, 0),          \* FIST
      Frame(3000, 3000, 0, 0, 0, 0, 0, -9000),      \* WAVE_LEFT over FIST
      Frame(1000, 1000, 15000, 15000, 0, 0, 0, 0) } \* TILT_DOWN over TILT_RIGHT, OPEN_HAND

\* duration of an iteration: delay(30) plus what the iteration itself took
Delays == {30, 50}

\* millis() at the first iteration: after setup(), or after a long uptime
\* without a transmission, 100 ms before the clock wraps
StartClocks == { U32(0, 500), U32(Limb - 1, Limb - 100) }

Loop ==
    /\ ticks < MaxTicks
    /\ \E f \in DevFrames, d \in Delays : LoopCore(f, d)
    /\ UNCHANGED <<txLog, scen, hostVars, clsVars, trnVars, api>>

\* MyCallbacks::onConnect
OnConnect ==
    /\ ~connected
    /\ connected' = TRUE
    /\ UNCHANGED <<currentGesture, gestureCount, lastSend, clock, frame, detected,
                   pCharValue, sent, nowRead, ticks, elapsed, lastGap, txLog, scen,
                   hostVars, clsVars, trnVars, api>>

\* MyCallbacks::onDisconnect
OnDisconnect ==
    /\ connected
    /\ connected' = FALSE
    /\ UNCHANGED <<currentGesture, gestureCount, lastSend, clock, frame, detected,
                   pCharValue, sent, nowRead, ticks, elapsed, lastGap, txLog, scen,
                   hostVars, clsVars, trnVars, api>>

NoScen == [A |-> 0, B |-> 0]

\* what a run of the device has recorded before its first iteration
InitDeviceHistory ==
    /\ detected = NoGesture
    /\ pCharValue = <<>>
    /\ sent = FALSE
    /\ nowRead = U32(0, 0)
    /\ ticks = 0
    /\ elapsed = -1
    /\ lastGap = -1
    /\ txLog = <<>>

\* the globals of the sketch as initialized (lines 26, 47-49)
InitDeviceState ==
    /\ InitDeviceHistory
    /\ connected = FALSE
    /\ currentGesture = 0
    /\ gestureCount = 0
    /\ lastSend = U32(0, 0)

InitDevice ==
    /\ InitDeviceState
    /\ InitHostState
    /\ InitClassifierState
    /\ InitTrainerState
    /\ idb = <<>>
    /\ frame = ZeroFrame
    /\ clock \in StartClocks
    /\ scen = NoScen

NextDevice == Loop \/ OnConnect \/ OnDisconnect

SpecDevice == InitDevice /\ [][NextDevice]_vars


-----------------------------------------------------------------------------
(* Device: the debounce scenario [A,A,A,B,B,B,B] *)

\* a frame whose classification is label l
FrameOf(l) ==
    CASE l = 0 -> Frame(2000, 2000, 0, 0, 0, 0, 0, 0)
      [] l = 1 -> Frame(3000, 3000, 0, 0, 0, 0, 0, 0)
      [] l = 2 -> Frame(1000, 1000, 0, 0, 0, 0, 0, 0)
      [] l = 3 -> Frame(2000, 2000, 0, 0, 0, 0, 0, -9000)
      [] l = 4 -> Frame(2000, 2000, 0, 0, 0, 0, 0, 9000)
      [] l = 5 -> Frame(2000, 2000, 0, -15000, 0, 0, 0, 0)
      [] l = 6 -> Frame(2000, 2000, 0, 15000, 0, 0, 0, 0)
      [] l = 7 -> Frame(2000, 2000, 15000, 0, 0, 0, 0, 0)
      [] l = 8 -> Frame(2000, 2000, -15000, 0, 0, 0, 0, 0)

ScenarioSeq(sc) == <<sc.A, sc.A, sc.A, sc.B, sc.B, sc.B, sc.B>>

\* one tick of the scenario: loop() reads the next classification, 30 ms later
ScenarioTick ==
    /\ ticks < Len(ScenarioSeq(scen))
    /\ LoopCore(FrameOf(ScenarioSeq(scen)[ticks + 1]), 30)
    /\ txLog' = IF sent' THEN Append(txLog, <<ticks', currentGesture'>>) ELSE txLog
    /\ UNCHANGED <<scen, hostVars, clsVars, trnVars, api>>

InitDebounce ==
    /\ InitDeviceState
    /\ InitHostState
    /\ InitClassifierState
    /\ InitTrainerState
    /\ idb = <<>>
    /\ frame = ZeroFrame
    /\ clock \in StartClocks
    /\ scen \in {sc \in [A : 0..8, B : 0..8] : sc.A # sc.B}

\* the scenario runs with the link active from its first tick
NextDebounce == (OnConnect /\ ticks = 0) \/ (connected /\ ScenarioTick)

SpecDebounce == InitDebounce /\ [][NextDebounce]_vars

-----------------------------------------------------------------------------
(* Device: a classification that becomes stable.  The first P ticks read   *)
(* A, ..., A, B (B on a single tick), with the link up or down; from tick  *)
(* P + 1 on the link is active and every tick reads A.  loop() is called   *)
(* again and again by the runtime (fairness of LiveTick), and the central  *)
(* has connected by the time the stable phase begins (fairness of          *)
(* LiveConnect).                                                           *)

MaxPrefix == 2         \* ticks before the classification is stable
MaxLiveTicks == 14     \* loop() iterations explored per run

\* the stable gesture: the one held at boot, a flex one, a motion one
LiveLabels == {0, 1, 6}

LiveLabel(sc, t) == IF t = sc.P THEN sc.B ELSE sc.A

LiveTick ==
    /\ ticks < MaxLiveTicks
    /\ ticks < scen.P \/ connected
    /\ \E d \in Delays : LoopCore(FrameOf(LiveLabel(scen, ticks + 1)), d)
    /\ txLog' = IF sent' THEN Append(txLog, <<ticks', currentGesture'>>) ELSE txLog
    /\ UNCHANGED <<scen, hostVars, clsVars, trnVars, api>>

LiveConnect == ticks <= scen.P /\ OnConnect

LiveDisconnect == ticks < scen.P /\ OnDisconnect

InitLive ==
    /\ InitDeviceState
    /\ InitHostState
    /\ InitClassifierState
    /\ InitTrainerState
    /\ idb = <<>>
    /\ frame = ZeroFrame
    /\ clock \in StartClocks
    /\ scen \in {sc \in [A : LiveLabels, B : 0..8, P : 0..MaxPrefix] :
                     sc.B = (sc.A + 1) % 9}

NextLive == LiveTick \/ LiveConnect \/ LiveDisconnect

SpecLive ==
    InitLive /\ [][NextLive]_vars /\ WF_vars(LiveTick) /\ WF_vars(LiveConnect)

-----------------------------------------------------------------------------
(* Device: detectGesture over threshold-boundary frames *)

FlexEdge == {0, FLEX_LOW + 199, FLEX_LOW + 200, FLEX_HIGH - 200, FLEX_HIGH - 199, 4095}
GyroEdge == {-32768, -GYRO_THR - 1, -GYRO_THR, 0, GYRO_THR, GYRO_THR + 1, 32767}
AccEdge == {-ACC_THR - 1, -ACC_THR, 0, ACC_THR, ACC_THR + 1}

EdgeFrames ==
    { Frame(f1, f2, ax, ay, 0, 0, 0, gz) :
        f1 \in FlexEdge, f2 \in FlexEdge, ax \in AccEdge, ay \in AccEdge,
        gz \in GyroEdge }

\* the sensors hold some frame
InitDetect ==
    /\ InitDeviceState
    /\ InitHostState
    /\ InitClassifierState
    /\ InitTrainerState
    /\ idb = <<>>
    /\ frame \in EdgeFrames
    /\ clock = U32(0, 500)
    /\ scen = NoScen

\* the frame is classified (line 112)
Detect ==
    /\ detected = NoGesture
    /\ detected' = detectGesture(frame)
    /\ UNCHANGED <<connected, currentGesture, gestureCount, lastSend, clock, frame,
                   pCharValue, sent, nowRead, ticks, elapsed, lastGap, txLog, scen,
                   hostVars, clsVars, trnVars, api>>

NextDetect == Detect

SpecDetect == InitDetect /\ [][NextDetect]_vars

-----------------------------------------------------------------------------
(* Host: the texts the link delivers, and the host specification *)

Join(a, b) == a \o <<",">> \o b

SensorText(f) ==
    Join(IntToChars(f.f1), Join(IntToChars(f.f2), Join(IntToChars(f.ax),
    Join(IntToChars(f.ay), Join(IntToChars(f.az), Join(IntToChars(f.gx),
    Join(IntToChars(f.gy), IntToChars(f.gz))))))))

FistFrame == Frame(3000, 3000, 0, 0, 0, 0, 0, 0)

\* "1:FIST|3000,3000,0,0,0,0,0,0" as the device sends it
GoodText == EncodeFrame(1, FistFrame)
\* "1:FIST": no "|"
NoBarText == IntToChars(1) \o <<":">> \o gestureNames[2]
\* "1:FIST|3000,3000,0,0,0,0,0,0|7": two "|"
TwoBarText == GoodText \o <<"|", "7">>
\* "1:FIST|3000,3000,0,0,0,0,0": 7 fields
SevenText == SubSeq(GoodText, 1, Len(GoodText) - 2)
\* "1:FIST|3000,x,0,0,0,0,0,0": a field that is no number
NonNumText ==
    IntToChars(1) \o <<":">> \o gestureNames[2] \o <<"|">>
    \o Join(IntToChars(3000), Join(<<"x">>, SubSeq(SensorText(ZeroFrame), 1, 11)))

\* what the host model receives: two frames of the device, and malformed texts
HostTexts ==
    { GoodText, EncodeFrame(3, FrameOf(3)), NoBarText, TwoBarText, SevenText,
      NonNumText }

\* a notification arrives on the link and the listener runs
HostReceive ==
    /\ listeners # <<>>
    /\ rx.count < MaxRx
    /\ \E data \in HostTexts : Receive(data)
    /\ UNCHANGED <<isConnected, useML, connecting, listeners, clsVars, devVars, trnVars, api>>

InitHost ==
    /\ InitDeviceState
    /\ frame = ZeroFrame
    /\ clock = U32(0, 500)
    /\ scen = NoScen
    /\ InitHostState
    /\ InitClassifierState
    /\ InitTrainerState
    /\ idb \in {<<>>, <<SavedModel>>}

NextHost ==
    \/ ToggleML
    \/ ConnectClick
    \/ ConnectDone
    \/ ConnectFail
    \/ HandleDisconnect
    \/ HostReceive
    \/ PredictResolve
    \/ PredictReject
    \/ ClassifierInitialize

SpecHost == InitHost /\ [][NextHost]_vars

-----------------------------------------------------------------------------
(* The wire round trip: the device encodes, the host decodes *)

CodecFrames ==
    { Frame(f1, f2, ax, ay, az, gx, gy, gz) :
        f1 \in {0, 4095}, f2 \in {7, 1234}, ax \in {-32768, 0, 32767},
        ay \in {-1, 10}, az \in {-10, 0}, gx \in {-100, 100}, gy \in {-9, 0},
        gz \in {-32768, 5, 32767} }

\* a host not yet connected, a device about to send some label and frame
InitCodec ==
    /\ InitDeviceHistory
    /\ connected = TRUE
    /\ gestureCount = 3
    /\ lastSend = U32(0, 0)
    /\ InitHostState
    /\ InitClassifierState
    /\ InitTrainerState
    /\ idb = <<>>
    /\ clock = U32(0, 500)
    /\ scen = NoScen
    /\ frame \in CodecFrames
    /\ currentGesture \in 0..8

\* the host connects (ConnectClick, then ConnectDone)
CodecConnect ==
    /\ rx.count = 0
    /\ (ConnectClick \/ ConnectDone)

\* lines 123-130: the frame is formatted and notified
CodecSend ==
    /\ ~sent
    /\ pCharValue' = EncodeFrame(currentGesture, frame)
    /\ sent' = TRUE
    /\ UNCHANGED <<connected, currentGesture, gestureCount, lastSend, clock, frame,
                   detected, nowRead, ticks, elapsed, lastGap, txLog, scen,
                   hostVars, clsVars, trnVars, api>>

\* the notification reaches the host's listener
CodecDeliver ==
    /\ sent
    /\ listeners # <<>>
    /\ rx.count = 0
    /\ Receive(pCharValue)
    /\ UNCHANGED <<isConnected, useML, connecting, listeners, clsVars, devVars, trnVars, api>>

NextCodec == CodecConnect \/ CodecSend \/ CodecDeliver

SpecCodec == InitCodec /\ [][NextCodec]_vars

-----------------------------------------------------------------------------
(* The classifier on its own: any caller, any order of calls *)

InitClassifier ==
    /\ InitDeviceState
    /\ frame = ZeroFrame
    /\ clock = U32(0, 500)
    /\ scen = NoScen
    /\ InitHostState
    /\ InitClassifierState
    /\ InitTrainerState
    /\ idb \in {<<>>, <<SavedModel>>}

NextClassifier ==
    \/ ClassifierInitialize
    \/ AddSample
    \/ ClearTrainingData
    \/ TrainCall
    \/ TrainEpoch
    \/ TrainFitDone
    \/ TrainSaveDone

SpecClassifier == InitClassifier /\ [][NextClassifier]_vars

-----------------------------------------------------------------------------
(* The classifier with reset and predict: any caller, any order of calls *)

NextClassifierApi ==
    \/ ClassifierInitialize
    \/ AddSample
    \/ TrainCall
    \/ TrainEpoch
    \/ TrainFitDone
    \/ TrainSaveDone
    \/ Reset
    \/ Predict

SpecClassifierApi == InitClassifier /\ [][NextClassifierApi]_vars

-----------------------------------------------------------------------------
(* Recording: the host receives frames, the user works the trainer panel *)

\* two frames of the device
TrainerTexts == { GoodText, EncodeFrame(3, FrameOf(3)) }

RecorderReceive ==
    /\ listeners # <<>>
    /\ rx.count < MaxRx
    /\ \E data \in TrainerTexts : Receive(data)
    /\ UNCHANGED <<isConnected, useML, connecting, listeners, clsVars, devVars,
                   trnVars, api>>

InitRecorder ==
    /\ InitDeviceState
    /\ frame = ZeroFrame
    /\ clock = U32(0, 500)
    /\ scen = NoScen
    /\ InitHostState
    /\ InitClassifierState
    /\ InitTrainerState
    /\ idb = <<>>

NextRecorder ==
    \/ ConnectClick
    \/ ConnectDone
    \/ RecorderReceive
    \/ ToggleTrainer
    \/ SelectGesture
    \/ StartRecordingClick
    \/ StopRecordingClick
    \/ RecordTick

SpecRecorder == InitRecorder /\ [][NextRecorder]_vars

-----------------------------------------------------------------------------
(* Training from the panel.  Samples reach the store through recording     *)
(* ticks; here only their number matters, and AddSample stands for a tick  *)
(* that the shown panel's stats do not see.                                *)

NextTraining ==
    \/ ClassifierInitialize
    \/ AddSample
    \/ ToggleTrainer
    \/ TrainClick
    \/ TrainEpoch
    \/ TrainFitDone
    \/ TrainSettle

SpecTraining == InitRecorder /\ [][NextTraining]_vars

-----------------------------------------------------------------------------
(* The host receiving labels of any kind *)

LabelText(id, name) == id \o <<":">> \o name \o <<"|">> \o SensorText(FistFrame)

\* "1:FIST|...", "9:NINE|...", "x:FIST|...", "1:OPEN_HAND|..."
LabelTexts ==
    { GoodText,
      LabelText(IntToChars(9), <<"N", "I", "N", "E">>),
      LabelText(<<"x">>, gestureNames[2]),
      LabelText(IntToChars(1), gestureNames[3]) }

LabelReceive ==
    /\ listeners # <<>>
    /\ rx.count < MaxRx
    /\ \E data \in LabelTexts : Receive(data)
    /\ UNCHANGED <<isConnected, useML, connecting, listeners, clsVars, devVars,
                   trnVars, api>>

NextLabels ==
    \/ ToggleML
    \/ ConnectClick
    \/ ConnectDone
    \/ LabelReceive
    \/ PredictResolve
    \/ PredictReject
    \/ ClassifierInitialize

SpecLabels == InitRecorder /\ [][NextLabels]_vars

-----------------------------------------------------------------------------
(* predict() over a grid of model outputs *)

\* distributions in percent: two classes a, b sharing 50 + d and 50 - d
ProbGrid ==
    { [i \in 1..9 |-> Num(IF i = t[1] THEN 50 + t[3]
                          ELSE IF i = t[2] THEN 50 - t[3] ELSE 0)] :
        t \in {u \in (1..9) \X (1..9) \X {0, 1, 50} : u[1] # u[2]} }

PredictGrid ==
    \E in \in SampleInputs : \E probs \in ProbGrid : predict(in[1], probs)

NextPredict == ClassifierInitialize \/ Reset \/ PredictGrid

SpecPredict == InitClassifier /\ [][NextPredict]_vars

-----------------------------------------------------------------------------
(* Normalization: a frame of the device reaches addSample and predict *)

\* addSample(sensorData, label) on the frame received, as a recording tick does
NormRecord ==
    /\ rx.outcome = "surfaced"
    /\ trainingData = <<>>
    /\ addSample(sensorData, currentGestureUI.id.v)
    /\ UNCHANGED <<model, isTraining, runs, trainRes, idb, hostVars, devVars,
                   trnVars, api>>

\* predict(sensorData) on the frame received
NormPredict ==
    /\ rx.outcome = "surfaced"
    /\ api.predicts = 0
    /\ predict(sensorData, Dist(0, 0, 0, 0, 0, 0, 0, 1, 99))

NextNormalize == CodecConnect \/ CodecSend \/ CodecDeliver \/ NormRecord \/ NormPredict

SpecNormalize == InitCodec /\ [][NextNormalize]_vars

-----------------------------------------------------------------------------
(* The sample store: recording, clearing, reset *)

NextStore ==
    \/ ConnectClick
    \/ ConnectDone
    \/ RecorderReceive
    \/ ClassifierInitialize
    \/ ToggleTrainer
    \/ SelectGesture
    \/ StartRecordingClick
    \/ StopRecordingClick
    \/ RecordTick
    \/ ClearDataClick
    \/ Reset

SpecStore == InitRecorder /\ [][NextStore]_vars

-----------------------------------------------------------------------------
(* The gesture history over many frames *)

MaxHistRx == 11        \* frames the host receives per run of the history

\* two frames of the device, and a text without "|"
HistTexts == { GoodText, EncodeFrame(3, FrameOf(3)), NoBarText }

HistReceive ==
    /\ listeners # <<>>
    /\ rx.count < MaxHistRx
    /\ \E data \in HistTexts : Receive(data)
    /\ UNCHANGED <<isConnected, useML, connecting, listeners, clsVars, devVars,
                   trnVars, api>>

NextHistory == ConnectClick \/ ConnectDone \/ HistReceive

SpecHistory == InitRecorder /\ [][NextHistory]_vars

-----------------------------------------------------------------------------
(* Claims on the device *)

\* C1: on every iteration of loop(), a frame is transmitted only if, after the
\* debounce update, gestureCount = 3, the clock minus lastSend (uint32_t) is at
\* least 120 and the link is connected; lastSend becomes the current time
\* exactly when a frame is transmitted and is unchanged otherwise.
C1_TransmitGuard ==
    [][ticks' # ticks =>
         /\ sent' => /\ gestureCount' = 3
                     /\ Ge32(Sub32(nowRead', lastSend), 120)
                     /\ connected
                     /\ lastSend' = nowRead'
         /\ ~sent' => lastSend' = lastSend]_vars

C1_Witness ==
    /\ sent /\ connected /\ gestureCount = 3 /\ lastSend = nowRead
    /\ lastGap >= 120

\* C2: the sequence [A,A,A,B,B,B,B], one classification per 30 ms tick with
\* the link active, transmits exactly once for A, on the 3rd A, and exactly
\* once for B, on the 3rd B (tick 6), and never earlier.
C2_DebounceScenario ==
    ticks = 7 => txLog = << <<3, scen.A>>, <<6, scen.B>> >>

\* C3: any two successive transmissions are at least 120 ms of real device
\* time apart, also across the wrap of the 32-bit millisecond clock.
C3_RateLimit == lastGap = -1 \/ lastGap >= 120

\* a transmission just after the clock wrapped, 120 ms after one before the wrap
C3_Witness ==
    /\ sent /\ lastGap = 120
    /\ nowRead[1] = 0 /\ nowRead[2] < 120

-----------------------------------------------------------------------------
(* Claim on detectGesture *)

\* the rules in priority order, as <<condition, label>>
Rules(f) ==
    << <<f.gz < -GYRO_THR, 3>>,
       <<f.gz > GYRO_THR, 4>>,
       <<f.ay < -ACC_THR, 5>>,
       <<f.ay > ACC_THR, 6>>,
       <<f.ax > ACC_THR, 7>>,
       <<f.ax < -ACC_THR, 8>>,
       <<f.f1 > FLEX_HIGH - 200 /\ f.f2 > FLEX_HIGH - 200, 1>>,
       <<f.f1 < FLEX_LOW + 200 /\ f.f2 < FLEX_LOW + 200, 2>>,
       <<TRUE, 0>> >>

MatchCount(f) == Cardinality({i \in 1..8 : Rules(f)[i][1]})

\* C4: detectGesture returns the label of the first rule that matches, in the
\* fixed priority order, IDLE when none does, and always a label in 0..8.
C4_FirstMatchWins ==
    detected # NoGesture =>
        /\ detected \in 0..8
        /\ \E i \in 1..9 :
              /\ Rules(frame)[i][1]
              /\ \A j \in 1..(i - 1) : ~Rules(frame)[j][1]
              /\ detected = Rules(frame)[i][2]

\* a frame matching three rules at once, classified by the first of them
C4_Witness ==
    /\ detected = 5
    /\ frame.ax > ACC_THR
    /\ frame.f1 > FLEX_HIGH - 200 /\ frame.f2 > FLEX_HIGH - 200
    /\ MatchCount(frame) = 3

-----------------------------------------------------------------------------
(* Claims on the host *)

C6_LiveSetting ==
    [][(rx'.count # rx.count /\ rx'.outcome # "ParseError") =>
          rx'.useMLRead = useML]_vars

HasNoBar(text) == \A i \in 1..Len(text) : text[i] # "|"

\* C8: a text without "|" is a parse error caught inside parseData: nothing is
\* awaited, and sensor data, current gesture, history, ML confidence and ML
\* prediction are what they were before the frame arrived.
C8_NoBarSkipped ==
    [][(rx'.count # rx.count /\ HasNoBar(rx'.text)) =>
          /\ rx'.outcome = "ParseError"
          /\ UNCHANGED <<sensorData, currentGestureUI, history, mlConfidence,
                         mlPrediction, pending, done>>]_vars

\* a text without "|" was dropped after a frame had been surfaced
C8_Witness ==
    /\ rx.count = 2
    /\ rx.text = NoBarText
    /\ rx.outcome = "ParseError"
    /\ Len(history) = 1
    /\ sensorData.flex1 = Num(3000)

IsIntText(s) ==
    LET body == IF s # <<>> /\ s[1] = "-" THEN Tail(s) ELSE s
    IN  body # <<>> /\ \A i \in 1..Len(body) : IsDigit(body[i])

\* the texts the decoder is to reject, besides those without "|"
Malformed(text) ==
    LET parts == Split(text, "|")
    IN  \/ Len(parts) > 2
        \/ /\ Len(parts) = 2
           /\ \/ Len(Split(parts[1], ":")) < 2
              \/ Len(Split(parts[2], ",")) # 8
              \/ \E i \in 1..Len(Split(parts[2], ",")) :
                    ~IsIntText(Split(parts[2], ",")[i])

\* C9: a text with more than one "|", without ":" in the label segment, with
\* other than 8 sensor fields or with a field that is no integer is a parse
\* error: it never updates the sensor data, the current gesture or the history.
C9_MalformedRejected ==
    [][(rx'.count # rx.count /\ Malformed(rx'.text)) =>
          /\ rx'.outcome = "ParseError"
          /\ UNCHANGED <<sensorData, currentGestureUI, history>>]_vars

-----------------------------------------------------------------------------
(* Claim on the wire round trip *)

\* C7: what the host decodes from the text the device encoded is the id, the
\* canonical name of the id and the 8 sensor values, in order.
C7_RoundTrip ==
    rx.count = 1 =>
        /\ rx.outcome = "surfaced"
        /\ currentGestureUI.id = Num(currentGesture)
        /\ currentGestureUI.name = <<gestureNames[currentGesture + 1]>>
        /\ sensorData = [flex1 |-> Num(frame.f1), flex2 |-> Num(frame.f2),
                         ax |-> Num(frame.ax), ay |-> Num(frame.ay),
                         az |-> Num(frame.az), gx |-> Num(frame.gx),
                         gy |-> Num(frame.gy), gz |-> Num(frame.gz)]

\* the longest frame: the longest name, five-digit negative values
C7_Witness ==
    /\ rx.count = 1
    /\ currentGesture = 7
    /\ frame.ax = -32768 /\ frame.gz = -32768 /\ frame.f1 = 4095
    /\ sensorData.gz = Num(-32768)
    /\ pCharValue = Formatted(7, frame)

-----------------------------------------------------------------------------
(* Claim on train() *)

-----------------------------------------------------------------------------
(* Claims on training, recording and reset *)

FitsRunning == Cardinality({i \in 1..Len(runs) : runs[i].phase = "fit"})

\* C11: at most one training run is in flight: a train() call made from the
\* panel while an earlier run has not completed (still fitting or saving)
\* starts no run, and two fits never run at once.
C11_OneRunInFlight ==
    /\ [](FitsRunning <= 1)
    /\ [][trainRes'.calls > trainRes.calls /\ runs # <<>> => runs' = runs]_vars

\* C12: no predict() call runs on partially trained parameters: each one runs
\* on a model as loaded, as built, or as left by a completed fit.
C12_PredictStable ==
    api.predW # "partial"

\* C13: every recording tick stores the frame the host received last (the
\* sensorData at the time of the tick).
C13_TickRecordsLatest ==
    rec.ticks > 0 => rec.sd = rec.live

\* C14: a sample is appended to the store only while the panel is Recording:
\* never after stopRecording, nor while no recording is shown as active.
C14_StopHaltsTick ==
    [][Len(trainingData') > Len(trainingData) => trIsRecording]_vars

\* C15: at most one recording timer is active in every reachable state.
C15_OneTimer ==
    Len(timers) <= 1

\* C16: a Start Recording click while all eight fields of sensorData are zero
\* is rejected before any state change: still not recording, no timer, no
\* sample.
C16_ZeroFrameRejected ==
    [][rec'.starts > rec.starts /\ sensorData = ZeroSensors =>
         /\ rec'.outcome = "rejected"
         /\ ~trIsRecording'
         /\ UNCHANGED <<trIsRecording, intervalRef, timers, trainingData, labels,
                        trStats, trGesture, trIsTraining>>]_vars

C16_Witness ==
    /\ rec.starts > 0 /\ rec.outcome = "rejected"
    /\ showTrainer /\ ~trIsRecording
    /\ sensorData = ZeroSensors
    /\ timers = <<>> /\ trainingData = <<>>

\* C17: after reset(), train() behaves as on a newly constructed and
\* initialized classifier: with no run in flight it fails with the
\* insufficient-data error below 10 samples and starts a fit from 10 on.
C17_ResetFirstUse ==
    [][api.resets > 0 /\ runs = <<>> /\ trainRes'.calls > trainRes.calls =>
         trainRes'.outcome = IF Len(trainingData) < MinSamples
                             THEN "InsufficientData" ELSE "fitting"]_vars

\* C18: reset() deletes the persisted model record: once it has completed no
\* saved model is left to load.
C18_ResetDeletes ==
    [][api'.resets > api.resets => idb' = <<>>]_vars

\* C19: from the initial detector state, three consecutive ticks carrying
\* f1 = f2 = 3000, all motion fields 0, are each classified FIST and leave
\* currentGesture = FIST with gestureCount = 3.
C19_FistAfterThree ==
    (scen.A = 1 /\ ticks = 3) =>
        /\ frame = FistFrame
        /\ detected = 1 /\ currentGesture = 1 /\ gestureCount = 3

CanonicalOrUnknown(g) ==
    \/ g.name = << <<"U", "N", "K", "N", "O", "W", "N">> >>
    \/ /\ g.id.t = "num" /\ g.id.v \in 0..8
       /\ g.name = <<gestureNames[g.id.v + 1]>>

\* C20: the current gesture and every history entry either has an id in 0..8
\* with the canonical name of that id, or is named UNKNOWN.
C20_LabelsInRange ==
    /\ CanonicalOrUnknown(currentGestureUI)
    /\ \A i \in 1..Len(history) : CanonicalOrUnknown(history[i])

-----------------------------------------------------------------------------
(* Claims on saving, loading, predicting, normalizing *)

\* C21: when train() returns after a run, isTraining is false again, the
\* in-memory model is the one the fit left, and the stored record is either
\* that model (the write succeeded) or what it was (the write failed, and the
\* failure went no further): the call counts as completed either way.
C21_SaveSwallowed ==
    [][Len(runs') < Len(runs) =>
         /\ trainRes'.completed = trainRes.completed + 1
         /\ ~isTraining'
         /\ model' = model
         /\ idb' \in {idb, model}]_vars

\* a run completed, its write failed, and predict then ran on the trained model
C21_Witness ==
    /\ trainRes.completed = 1 /\ runs = <<>> /\ ~isTraining
    /\ idb = <<>>
    /\ model = <<[w |-> "trained"]>>
    /\ api.predW = "trained"

\* C22: initialize() always leaves a model, loaded or newly built, and a
\* model obtained either way can be trained: with 10 samples and no run in
\* flight, train() on it starts a fit.
C22_InitializeUsable ==
    /\ [][model = <<>> /\ model' # <<>> => model' = initialize(idb)]_vars
    /\ [][trainRes'.calls > trainRes.calls /\ model # <<>> /\ runs = <<>>
            /\ Len(trainingData) >= 10 => trainRes'.outcome = "fitting"]_vars

\* C23: predict() leaves a model in place, and on a distribution over the 9
\* classes it returns the lowest index attaining the maximum, the probability
\* at that index (within 0..100 percent) and the whole distribution.
C23_ArgMax ==
    [][api'.predicts > api.predicts =>
         /\ model' # <<>>
         /\ LET r == api'.out[1]
                p == r.probabilities
            IN  /\ Len(p) = 9
                /\ r.gestureId \in 0..8
                /\ \A j \in 1..9 : p[j].v <= p[r.gestureId + 1].v
                /\ \A j \in 1..r.gestureId : p[j].v < p[r.gestureId + 1].v
                /\ r.confidence = p[r.gestureId + 1]
                /\ r.confidence.v \in 0..100]_vars

\* a tie between classes 3 and 7 answered with class 3, on a model built lazily
C23_Witness ==
    /\ api.predicts = 1 /\ api.out # <<>>
    /\ api.out[1].probabilities[4].v = 50 /\ api.out[1].probabilities[8].v = 50
    /\ api.out[1].gestureId = 3
    /\ api.predW = "fresh"

ExpectedFeatures(f) ==
    << [n |-> f.f1, d |-> 4095], [n |-> f.f2, d |-> 4095],
       [n |-> f.ax, d |-> 32768], [n |-> f.ay, d |-> 32768],
       [n |-> f.az, d |-> 32768], [n |-> f.gx, d |-> 32768],
       [n |-> f.gy, d |-> 32768], [n |-> f.gz, d |-> 32768] >>

\* C24: the sample recorded from a frame and the features predict computes
\* from it are both the 8 quotients flex/4095, motion/32768 of the raw values
\* the device read, in the order flex1, flex2, ax, ay, az, gx, gy, gz,
\* unclamped (so 0 -> 0, 4095 -> 1, -32768 -> -1).
C24_Normalization ==
    /\ trainingData # <<>> => trainingData[1] = ExpectedFeatures(frame)
    /\ api.feat # <<>> => api.feat = ExpectedFeatures(frame)

C24_Witness ==
    /\ frame.f1 = 4095 /\ frame.ax = -32768 /\ frame.gz = 32767
    /\ trainingData # <<>>
    /\ api.feat = trainingData[1]
    /\ api.feat[1].n = api.feat[1].d
    /\ api.feat[3].n = -api.feat[3].d

\* C25: the feature list and the label list always have the same length; a
\* recording tick adds one to totalSamples and to samplesPerClass of its
\* label and to no other class; any other step either leaves the store alone
\* or empties it (all counts 0), and emptying it by clearTrainingData leaves
\* the model untouched.
C25_StoreStats ==
    /\ [](Len(trainingData) = Len(labels))
    /\ [][IF rec'.ticks > rec.ticks
          THEN /\ TotalSamples' = TotalSamples + 1
               /\ \A l \in 0..8 :
                     SamplesPerClass(l)' =
                         SamplesPerClass(l) + (IF l = rec'.label THEN 1 ELSE 0)
          ELSE \/ UNCHANGED <<trainingData, labels>>
               \/ /\ TotalSamples' = 0
                  /\ \A l \in 0..8 : SamplesPerClass(l)' = 0
                  /\ api'.resets = api.resets => model' = model]_vars

\* two samples recorded, cleared, then one sample of label 1 recorded
C25_Witness ==
    /\ rec.ticks = 3
    /\ TotalSamples = 1 /\ SamplesPerClass(1) = 1 /\ SamplesPerClass(0) = 0
    /\ trStats = <<1>>
    /\ model # <<>>

\* C26: the history holds min(surfaced frames, 10) entries, newest first:
\* every frame that parses is surfaced and puts one entry at the front, the
\* entries before it move back by one and only the 10th is dropped; nothing
\* else changes the history.
C26_HistoryLastTen ==
    /\ [](Len(history) = IF done.count < 10 THEN done.count ELSE 10)
    /\ [][rx'.count > rx.count /\ rx'.outcome # "ParseError" =>
            done'.count = done.count + 1]_vars
    /\ [][IF done'.count > done.count
          THEN /\ history'[1] = currentGestureUI'
               /\ Len(history') = IF Len(history) < 10 THEN Len(history) + 1 ELSE 10
               /\ \A i \in 2..Len(history') : history'[i] = history[i - 1]
          ELSE history' = history]_vars

\* an 11th frame was surfaced: 10 entries, the newest a FIST, the oldest not
C26_Witness ==
    /\ done.count = 11
    /\ Len(history) = 10
    /\ history[1].id = Num(1)
    /\ history[10].id = Num(3)

\* C27: a training run counts its epochs 1, 2, ..., 50 one by one, saves only
\* after the 50th, and train() returns only after the save, clearing
\* isTraining; no step of a run changes the sample store.
C27_EpochsInOrder ==
    [][runs' # runs =>
         /\ UNCHANGED <<trainingData, labels>>
         /\ Len(runs') = Len(runs) =>
               \A i \in 1..Len(runs) :
                   \/ runs'[i] = runs[i]
                   \/ /\ runs[i].phase = "fit" /\ runs'[i].phase = "fit"
                      /\ runs'[i].epoch = runs[i].epoch + 1
                      /\ runs'[i].epoch <= 50
                   \/ /\ runs[i].phase = "fit" /\ runs'[i].phase = "save"
                      /\ runs[i].epoch = 50 /\ runs'[i].epoch = 50
                      /\ idb' = idb
         /\ Len(runs') > Len(runs) =>
               /\ runs' = Append(runs, runs'[Len(runs')])
               /\ runs'[Len(runs')].epoch = 0 /\ runs'[Len(runs')].phase = "fit"
         /\ Len(runs') < Len(runs) =>
               /\ \E i \in 1..Len(runs) :
                     runs[i].phase = "save" /\ runs' = Remove(runs, i)
               /\ ~isTraining']_vars

\* a run went through its 50 epochs, saved and returned
C27_Witness ==
    /\ trainRes.completed = 1 /\ trainRes.calls = 1
    /\ runs = <<>> /\ ~isTraining
    /\ idb = <<[w |-> "trained"]>>
    /\ Len(trainingData) >= 10

-----------------------------------------------------------------------------
(* Claims on the device, continued *)

\* C28: a connect or disconnect event changes nothing of currentGesture,
\* gestureCount and lastSend; every tick updates the debounce state, link or
\* no link; a tick without a link transmits nothing.
C28_LinkOnlyFlag ==
    /\ [][connected' # connected =>
            UNCHANGED <<currentGesture, gestureCount, lastSend, ticks>>]_vars
    /\ [][ticks' # ticks =>
            /\ currentGesture' = detected'
            /\ gestureCount' = IF detected' # currentGesture THEN 0
                               ELSE IF gestureCount < 3 THEN gestureCount + 1 ELSE 3
            /\ ~connected => (~sent' /\ lastSend' = lastSend /\ connected' = connected)]_vars

\* after a transmission the link is down, and the debounce went on to 3 on a
\* gesture other than the one sent
C28_Witness ==
    /\ ~connected /\ ~sent
    /\ elapsed >= 0
    /\ gestureCount = 3
    /\ pCharValue # <<>> /\ pCharValue # EncodeFrame(currentGesture, frame)

\* C29: gestureCount is always in 0..3 and currentGesture in 0..8; a tick
\* classified as currentGesture adds one to the count unless it is 3, a tick
\* classified otherwise sets currentGesture to the new id and the count to 0.
C29_DebounceState ==
    /\ [](gestureCount \in 0..3 /\ currentGesture \in 0..8)
    /\ [][ticks' # ticks =>
            IF detected' = currentGesture
            THEN /\ currentGesture' = currentGesture
                 /\ gestureCount' = IF gestureCount = 3 THEN 3 ELSE gestureCount + 1
            ELSE /\ currentGesture' = detected'
                 /\ gestureCount' = 0]_vars

\* the count stayed at its ceiling over two more identical ticks
C29_Witness ==
    /\ gestureCount = 3 /\ ticks = 6 /\ currentGesture = 6
    /\ detected = 6

\* C30: the frame on the characteristic carries the id that detectGesture
\* gives on the eight values it carries, and the canonical name of that id.
C30_SelfConsistent ==
    pCharValue # <<>> =>
        LET p == ParseWire(pCharValue)
            f == Frame(p.sd.flex1.v, p.sd.flex2.v, p.sd.ax.v, p.sd.ay.v,
                       p.sd.az.v, p.sd.gx.v, p.sd.gy.v, p.sd.gz.v)
        IN  /\ ~p.threw
            /\ p.id = Num(detectGesture(f))
            /\ p.id.v \in 0..8
            /\ p.name = <<gestureNames[p.id.v + 1]>>

\* a frame matching several rules was transmitted as WAVE_LEFT
C30_Witness ==
    /\ sent
    /\ frame = Frame(3000, 3000, 0, 0, 0, 0, 0, -9000)
    /\ ParseWire(pCharValue).id = Num(3)

-----------------------------------------------------------------------------
(* Claims on liveness and on the order of surfacing *)

\* C31: once the link stays active and every tick reads the same gesture A,
\* a frame for A is transmitted and then transmitted again; the gesture B
\* read on the single tick before is never transmitted.
C31_StableTransmitted ==
    /\ <>(Len(txLog) >= 2)
    /\ [](\A i \in 1..Len(txLog) : txLog[i][2] = scen.A /\ txLog[i][1] > scen.P)

\* A, B, then A for good: A was transmitted twice, at least 120 ms apart
C31_Witness ==
    /\ scen.P = 2
    /\ Len(txLog) = 2
    /\ txLog[1][2] = scen.A /\ txLog[2][2] = scen.A
    /\ lastGap >= 120

\* C32: once no prediction is pending, the frame surfaced last is the frame
\* received last (if that one parsed), and sensorData is that frame's.
C32_ArrivalOrder ==
    (pending = <<>> /\ rx.count > 0 /\ rx.outcome # "ParseError") =>
        LET p == ParseWire(rx.text)
        IN  /\ done.frame = Gesture(p.id, p.name, FALSE)
            /\ sensorData = p.sd

\* C33: while the host is not connected the current gesture is IDLE.
C33_IdleAfterDrop ==
    ~isConnected => currentGestureUI = IdleGesture

=============================================================================
